---- MODULE Spec2Model ----
(***************************************************************************)
(* Tracklet refinement of deeplabcut/refine_training_dataset/tracklets.py: *)
(* the TrackletManager store (canonical array, identity maps, masks, swap  *)
(* event table) and the TrackletVisualizer editing session driven by pick  *)
(* and key-press events.                                                   *)
(***************************************************************************)
EXTENDS Integers, Sequences, FiniteSets, TLC

\* ---------------------------------------------------------------- bounds
\* individuals listed in the configuration (cfg['individuals'])
NIndividuals == 2
\* bodyparts per individual in the loaded table
NBodyparts == 2
\* individuals of the loaded table beyond those the configuration lists
NExtraInd == 1
\* frames of the video
NFrames == 3
\* editing-session commands per behaviour
MaxOps == 3
\* slots picked at once by one pick event
MaxPicked == 2
\* largest coordinate of a detection in the tables the swap detector is run on
MaxCoord == 2
\* raw tracklets of the pickle file
NRaw == 3
\* confidence levels of the raw detections
MaxConf == 2

\* ------------------------------------------------------------- constants
\* np.nan; every detection value of the model is >= 0
NaN == -1
\* the longest speed string BackgroundPlayer.forward and rewind build
MaxSpeed == 4

ntracklets == (NIndividuals + NExtraInd) * NBodyparts
Slots == 0 .. (ntracklets - 1)
Frames == 0 .. (NFrames - 1)
\* min_swap_frac, the constructor's default 0.01, as numerator and denominator
min_swap_frac == <<1, 100>>
\* values of min_tracklet_frac the manager is constructed with: the default
\* 0.01 and one half
MinTrackletFracs == {<<1, 100>>, <<1, 2>>}

VARIABLES
    xy,                     \* self.xy: slot -> frame -> <<x, y>>
    prob,                   \* self.prob: slot -> frame -> confidence
    tracklet2id,            \* slot -> individual
    tracklet2bp,            \* slot -> bodypart
    empty_tracklets,        \* slot -> BOOLEAN
    unidentified_tracklets, \* slot -> BOOLEAN
    min_tracklet_frac,      \* <<numerator, denominator>>
    swapping_pairs,         \* sequence of <<a, b>>
    tracklet_swaps,         \* crossing matrix over the non-empty slots
    picked,                 \* TrackletVisualizer.picked, ascending slots
    picked_pair,            \* <<>> or <<a, b>>
    cuts,                   \* frames marked by the x key
    slider_val,             \* displayed frame index
    single,                 \* single-frame edit mode
    is_connected,           \* PointSelector.is_connected: the lasso is active
    mark_picked,            \* history: self.picked when the pending mark was made
    running,                \* BackgroundPlayer.running
    can_run,                \* BackgroundPlayer.can_run: the event is set
    paused,                 \* BackgroundPlayer.paused
    speed,                  \* BackgroundPlayer.speed: <<letter, length>>
    pc,                     \* position of the thread in BackgroundPlayer.run
    player_i,               \* the local i of BackgroundPlayer.run
    tracklets,              \* load_tracklets_from_pickle: the raw tracklets
    tracklets_sorted,       \* ... those still to place, by completeness
    tracklets_multi,        \* ... individual -> frame -> column
    tracklets_single,       \* ... frame -> column
    lastOp,                 \* the last command and its outcome
    nops                    \* commands issued so far

storeVars == <<xy, prob, tracklet2id, tracklet2bp, empty_tracklets,
               unidentified_tracklets>>
tableVars == <<swapping_pairs, tracklet_swaps>>
sessionVars == <<picked, picked_pair, cuts, slider_val, single, is_connected>>
playerVars == <<running, can_run, paused, speed, pc, player_i>>
loaderVars == <<tracklets, tracklets_sorted, tracklets_multi, tracklets_single>>
vars == <<xy, prob, tracklet2id, tracklet2bp, empty_tracklets,
          unidentified_tracklets, min_tracklet_frac, swapping_pairs,
          tracklet_swaps, picked, picked_pair, cuts, slider_val, single,
          is_connected, mark_picked, running, can_run, paused, speed, pc,
          player_i, tracklets, tracklets_sorted, tracklets_multi,
          tracklets_single, lastOp, nops>>

\* ------------------------------------------------------------- utilities
IsNaN(v) == v = NaN

Min(S) == CHOOSE m \in S : \A n \in S : m <= n

\* the elements of a finite set of integers in ascending order
RECURSIVE SortedSeq(_)
SortedSeq(S) == IF S = {} THEN <<>> ELSE <<Min(S)>> \o SortedSeq(S \ {Min(S)})

SeqRange(s) == {s[k] : k \in DOMAIN s}

\* the store as one record
Store == [xy |-> xy, prob |-> prob, tracklet2id |-> tracklet2id,
          tracklet2bp |-> tracklet2bp, empty_tracklets |-> empty_tracklets,
          unidentified_tracklets |-> unidentified_tracklets]

SetStore(st) ==
    /\ xy' = st.xy
    /\ prob' = st.prob
    /\ tracklet2id' = st.tracklet2id
    /\ tracklet2bp' = st.tracklet2bp
    /\ empty_tracklets' = st.empty_tracklets
    /\ unidentified_tracklets' = st.unidentified_tracklets

Op(name, a, b, F, ok) == [op |-> name, a |-> a, b |-> b, F |-> F, ok |-> ok]

\* ------------------------------------------------------------ the store
\* calc_completeness: frames of each slot whose (x, y) holds no NaN
calc_completeness(arr) ==
    [s \in Slots |->
        Cardinality({f \in Frames : ~(IsNaN(arr[s][f][1]) \/ IsNaN(arr[s][f][2]))})]

\* update_empty_mask: comp <= min_tracklet_frac * nframes
update_empty_mask(st, frac) ==
    [st EXCEPT !.empty_tracklets =
        [s \in Slots |-> calc_completeness(st.xy)[s] * frac[2] <= frac[1] * NFrames]]

\* update_unidentified_mask: unidentified &= ~empty
update_unidentified_mask(st) ==
    [st EXCEPT !.unidentified_tracklets =
        [s \in Slots |-> st.unidentified_tracklets[s] /\ ~st.empty_tracklets[s]]]

\* finalize, after load_tracklets_from_hdf has set xy and prob
finalize(arr_xy, arr_prob, frac) ==
    LET st0 == [xy |-> arr_xy, prob |-> arr_prob,
                tracklet2id |-> [s \in Slots |-> s \div NBodyparts],
                tracklet2bp |-> [s \in Slots |-> s % NBodyparts],
                empty_tracklets |-> [s \in Slots |-> FALSE],
                unidentified_tracklets |->
                    [s \in Slots |-> s >= NIndividuals * NBodyparts]]
    IN update_unidentified_mask(update_empty_mask(st0, frac))

\* the IndexError of swap_tracklets: a slot or a frame outside the array
swap_tracklets_raises(tracklet1, tracklet2, inds) ==
    ~(tracklet1 \in Slots /\ tracklet2 \in Slots /\ inds \subseteq Frames)

\* a swap that copies tracklet2 over tracklet1 and keeps tracklet2 as it was
swap_tracklets_overwrite(st, tracklet1, tracklet2, inds) ==
    [st EXCEPT
        !.xy = [s \in Slots |-> [f \in Frames |->
                  IF f \in inds /\ s = tracklet1 THEN st.xy[tracklet2][f]
                  ELSE st.xy[s][f]]],
        !.prob = [s \in Slots |-> [f \in Frames |->
                  IF f \in inds /\ s = tracklet1 THEN st.prob[tracklet2][f]
                  ELSE st.prob[s][f]]],
        !.tracklet2bp = [s \in Slots |->
                  IF s = tracklet1 THEN st.tracklet2bp[tracklet2]
                  ELSE st.tracklet2bp[s]]]

\* a swap that exchanges every frame, whatever inds says
swap_tracklets_allframes(st, tracklet1, tracklet2, inds) ==
    [st EXCEPT
        !.xy = [s \in Slots |->
                  IF s = tracklet1 THEN st.xy[tracklet2]
                  ELSE IF s = tracklet2 THEN st.xy[tracklet1]
                  ELSE st.xy[s]],
        !.prob = [s \in Slots |->
                  IF s = tracklet1 THEN st.prob[tracklet2]
                  ELSE IF s = tracklet2 THEN st.prob[tracklet1]
                  ELSE st.prob[s]],
        !.tracklet2bp = [s \in Slots |->
                  IF s = tracklet1 THEN st.tracklet2bp[tracklet2]
                  ELSE IF s = tracklet2 THEN st.tracklet2bp[tracklet1]
                  ELSE st.tracklet2bp[s]]]

\* a swap that exchanges xy and the bodypart mapping and leaves prob alone
swap_tracklets_xyonly(st, tracklet1, tracklet2, inds) ==
    [st EXCEPT
        !.xy = [s \in Slots |-> [f \in Frames |->
                  IF f \in inds /\ s = tracklet1 THEN st.xy[tracklet2][f]
                  ELSE IF f \in inds /\ s = tracklet2 THEN st.xy[tracklet1][f]
                  ELSE st.xy[s][f]]],
        !.tracklet2bp = [s \in Slots |->
                  IF s = tracklet1 THEN st.tracklet2bp[tracklet2]
                  ELSE IF s = tracklet2 THEN st.tracklet2bp[tracklet1]
                  ELSE st.tracklet2bp[s]]]

\* swap_tracklets: exchange xy and prob of the two slots over inds, and the
\* two slots' bodypart mapping
swap_tracklets(st, tracklet1, tracklet2, inds) ==
    [st EXCEPT
        !.xy = [s \in Slots |-> [f \in Frames |->
                  IF f \in inds /\ s = tracklet1 THEN st.xy[tracklet2][f]
                  ELSE IF f \in inds /\ s = tracklet2 THEN st.xy[tracklet1][f]
                  ELSE st.xy[s][f]]],
        !.prob = [s \in Slots |-> [f \in Frames |->
                  IF f \in inds /\ s = tracklet1 THEN st.prob[tracklet2][f]
                  ELSE IF f \in inds /\ s = tracklet2 THEN st.prob[tracklet1][f]
                  ELSE st.prob[s][f]]],
        !.tracklet2bp = [s \in Slots |->
                  IF s = tracklet1 THEN st.tracklet2bp[tracklet2]
                  ELSE IF s = tracklet2 THEN st.tracklet2bp[tracklet1]
                  ELSE st.tracklet2bp[s]]]

\* np.argmax(self.empty_tracklets): the first flagged slot, 0 when none is
ind_empty_of(st) ==
    IF \E s \in Slots : st.empty_tracklets[s]
    THEN Min({s \in Slots : st.empty_tracklets[s]})
    ELSE 0

\* cut_tracklet line 337 alone: the state an IndexError of line 338 leaves
cut_tracklet_partial(st, num_tracklet) ==
    [st EXCEPT !.tracklet2bp[ind_empty_of(st)] = st.tracklet2bp[num_tracklet]]

\* cut_tracklet, all four statements
cut_tracklet(st, num_tracklet, inds) ==
    LET ind_empty == ind_empty_of(st)
        st1 == swap_tracklets(cut_tracklet_partial(st, num_tracklet),
                              num_tracklet, ind_empty, inds)
    IN [st1 EXCEPT !.unidentified_tracklets[ind_empty] = TRUE,
                   !.empty_tracklets[ind_empty] = FALSE]

\* ------------------------------------------------ the swap event table
\* sub > 0 and sub <= 0 of line 350-351 for one coordinate c of slots a, b at
\* frame f; a comparison with NaN is False
pos(arr, a, b, f, c) ==
    /\ ~IsNaN(arr[a][f][c])
    /\ ~IsNaN(arr[b][f][c])
    /\ arr[a][f][c] - arr[b][f][c] > 0

neg(arr, a, b, f, c) ==
    /\ ~IsNaN(arr[a][f][c])
    /\ ~IsNaN(arr[b][f][c])
    /\ arr[a][f][c] - arr[b][f][c] <= 0

\* a detector that wants both coordinates to flip in the same direction
crossing_samedir(arr, a, b, t) ==
    \/ \A c \in {1, 2} : neg(arr, a, b, t + 1, c) /\ pos(arr, a, b, t, c)
    \/ \A c \in {1, 2} : pos(arr, a, b, t + 1, c) /\ neg(arr, a, b, t, c)

\* zero_crossings.all(axis=3) at index t: between frames t and t + 1
crossing(arr, a, b, t) ==
    \A c \in {1, 2} :
        \/ neg(arr, a, b, t + 1, c) /\ pos(arr, a, b, t, c)
        \/ pos(arr, a, b, t + 1, c) /\ neg(arr, a, b, t, c)

\* np.flatnonzero(np.logical_not(self.empty_tracklets))
nonempty_of(st) == SortedSeq({s \in Slots : ~st.empty_tracklets[s]})

\* self.tracklet_swaps: indexed by position in nonempty, not by slot
tracklet_swaps_of(st) ==
    LET nonempty == nonempty_of(st)
        n == Len(nonempty)
    IN [i \in 0 .. (n - 1) |-> [j \in 0 .. (n - 1) |->
          {t \in 0 .. (NFrames - 2) :
              crossing(st.xy, nonempty[i + 1], nonempty[j + 1], t)}]]

\* a pair list that keeps the pairs of slots of one individual
swapping_pairs_of_anyid(st) ==
    LET nonempty == SortedSeq({s \in Slots : ~st.empty_tracklets[s]})
        n == Len(nonempty)
        kept == {k \in 0 .. (n * n - 1) :
                   /\ k % n <= k \div n
                   /\ \E t \in 0 .. (NFrames - 2) :
                         \A c \in {1, 2} :
                           \/ neg(st.xy, nonempty[(k \div n) + 1], nonempty[(k % n) + 1], t + 1, c)
                              /\ pos(st.xy, nonempty[(k \div n) + 1], nonempty[(k % n) + 1], t, c)
                           \/ pos(st.xy, nonempty[(k \div n) + 1], nonempty[(k % n) + 1], t + 1, c)
                              /\ neg(st.xy, nonempty[(k \div n) + 1], nonempty[(k % n) + 1], t, c)}
        order == SortedSeq(kept)
    IN [m \in 1 .. Len(order) |->
          <<nonempty[(order[m] \div n) + 1], nonempty[(order[m] % n) + 1]>>]

\* lines 357-367: the pairs of the lower triangle with enough crossings whose
\* slots belong to different individuals, in row-major order
swapping_pairs_of(st) ==
    LET nonempty == nonempty_of(st)
        n == Len(nonempty)
        swaps == tracklet_swaps_of(st)
        kept == {k \in 0 .. (n * n - 1) :
                   LET i == k \div n
                       j == k % n
                   IN /\ j <= i
                      /\ Cardinality(swaps[i][j]) * min_swap_frac[2]
                            > min_swap_frac[1] * NFrames
                      /\ st.tracklet2id[nonempty[i + 1]]
                            # st.tracklet2id[nonempty[j + 1]]}
        order == SortedSeq(kept)
    IN [m \in 1 .. Len(order) |->
          <<nonempty[(order[m] \div n) + 1], nonempty[(order[m] % n) + 1]>>]

\* get_swap_indices raises IndexError when an index is outside the matrix
get_swap_indices_raises(swaps, tracklet1, tracklet2) ==
    ~(tracklet1 \in DOMAIN swaps /\ tracklet2 \in DOMAIN swaps)

\* get_swap_indices: np.flatnonzero(self.tracklet_swaps[tracklet1, tracklet2])
get_swap_indices(swaps, tracklet1, tracklet2) ==
    SortedSeq(swaps[tracklet1][tracklet2])

\* ------------------------------------------------- the background player
\* BackgroundPlayer.__init__, and the thread started on run by
\* TrackletVisualizer.__init__
InitPlayer ==
    /\ running = TRUE
    /\ can_run = FALSE
    /\ paused = TRUE
    /\ speed = <<"", 0>>
    /\ pc = "while"
    /\ player_i = 0

\* the locals of load_tracklets_from_pickle in a manager that has not run it
InitLoader ==
    /\ tracklets = <<>>
    /\ tracklets_sorted = <<>>
    /\ tracklets_multi = <<>>
    /\ tracklets_single = <<>>

\* ------------------------------------------------------- the loaded table
\* The table load_tracklets_from_hdf reads: slot s of an even individual moves
\* up the diagonal, of an odd individual down it, so that slots of neighbouring
\* individuals cross; each bodypart is set 10 apart; every confidence is
\* distinct.  One slot (hole) may hold a single detection (sparse) or none.
loaded_xy(hole, kind) ==
    [s \in Slots |-> [f \in Frames |->
        LET base == IF (s \div NBodyparts) % 2 = 0 THEN f ELSE NFrames - 1 - f
            v == base + 10 * (s % NBodyparts)
        IN IF s = hole /\ (kind = "empty" \/ f # 0)
           THEN <<NaN, NaN>> ELSE <<v, v + 1>>]]

loaded_prob(hole, kind) ==
    [s \in Slots |-> [f \in Frames |->
        IF s = hole /\ (kind = "empty" \/ f # 0)
        THEN NaN ELSE 1 + s * NFrames + f]]

SlotArgs == 0 .. ntracklets
FrameArgs == (SUBSET Frames) \cup {{NFrames}}

Init ==
    /\ \E hole \in SlotArgs, kind \in {"sparse", "empty"},
          frac \in MinTrackletFracs :
          /\ min_tracklet_frac = frac
          /\ LET st == finalize(loaded_xy(hole, kind), loaded_prob(hole, kind), frac)
             IN /\ xy = st.xy
                /\ prob = st.prob
                /\ tracklet2id = st.tracklet2id
                /\ tracklet2bp = st.tracklet2bp
                /\ empty_tracklets = st.empty_tracklets
                /\ unidentified_tracklets = st.unidentified_tracklets
    /\ swapping_pairs = <<>>
    /\ tracklet_swaps = <<>>
    /\ picked = <<>>
    /\ picked_pair = <<>>
    /\ cuts = <<>>
    /\ slider_val = 0
    /\ single = FALSE
    /\ is_connected = FALSE
    /\ mark_picked = <<>>
    /\ InitPlayer
    /\ InitLoader
    /\ lastOp = Op("load", 0, 0, {}, TRUE)
    /\ nops = 0

\* --------------------------------------------- calls of the store's methods
\* SpecStore applies one call of a store method, with every argument, to every
\* loaded table.
\* manager.swap_tracklets(a, b, F) called directly
call_swap_tracklets ==
    /\ lastOp.op = "load"
    /\ nops' = nops + 1
    /\ \E a \in SlotArgs, b \in SlotArgs, F \in FrameArgs :
          IF swap_tracklets_raises(a, b, F)
          THEN /\ UNCHANGED storeVars
               /\ lastOp' = Op("swap_tracklets", a, b, F, FALSE)
          ELSE /\ SetStore(swap_tracklets(Store, a, b, F))
               /\ lastOp' = Op("swap_tracklets", a, b, F, TRUE)
    /\ UNCHANGED <<min_tracklet_frac, tableVars, sessionVars>>
    /\ UNCHANGED <<mark_picked, playerVars, loaderVars>>

\* manager.cut_tracklet(num_tracklet, F) called directly
call_cut_tracklet ==
    /\ lastOp.op = "load"
    /\ nops' = nops + 1
    /\ \E num_tracklet \in SlotArgs, F \in FrameArgs :
          LET ind_empty == ind_empty_of(Store)
          IN IF num_tracklet \notin Slots
             THEN /\ UNCHANGED storeVars
                  /\ lastOp' = Op("cut_tracklet", num_tracklet, ind_empty, F, FALSE)
             ELSE IF swap_tracklets_raises(num_tracklet, ind_empty, F)
             THEN /\ SetStore(cut_tracklet_partial(Store, num_tracklet))
                  /\ lastOp' = Op("cut_tracklet", num_tracklet, ind_empty, F, FALSE)
             ELSE /\ SetStore(cut_tracklet(Store, num_tracklet, F))
                  /\ lastOp' = Op("cut_tracklet", num_tracklet, ind_empty, F, TRUE)
    /\ UNCHANGED <<min_tracklet_frac, tableVars, sessionVars>>
    /\ UNCHANGED <<mark_picked, playerVars, loaderVars>>

NextStore ==
    \/ call_swap_tracklets
    \/ call_cut_tracklet

SpecStore == Init /\ [][NextStore]_vars

\* ------------------------------------------------- the editing session
\* on_pick lines 615-620: the first swapping pair the single picked slot is in
pair_of(pairs, picks) ==
    IF Len(picks) = 1 /\ \E m \in DOMAIN pairs : picks[1] \in {pairs[m][1], pairs[m][2]}
    THEN pairs[Min({m \in DOMAIN pairs : picks[1] \in {pairs[m][1], pairs[m][2]}})]
    ELSE <<>>

\* fill_shaded_areas reads get_swap_indices of the pair and raises with it
fill_shaded_areas_raises(swaps, pair) ==
    pair # <<>> /\ get_swap_indices_raises(swaps, pair[1], pair[2])

\* slots the scatter plot shows at frame i: those with a detection there
shown_at(i) == {s \in Slots : ~(IsNaN(xy[s][i][1]) \/ IsNaN(xy[s][i][2]))}

PickSets(i) == {P \in SUBSET shown_at(i) : P # {} /\ Cardinality(P) <= MaxPicked}

\* on_pick, click on points of the scatter plot (ax1: the slots with a
\* detection at the displayed frame lying under the cursor) or on one
\* displayed trace (ax2, ax3: update_traces leaves only the picked slots'
\* traces drawn): the picked slots are replaced
on_pick_data(picks) ==
    /\ nops < MaxOps
    /\ nops' = nops + 1
    /\ \/ picks \in PickSets(slider_val)
       \/ Cardinality(picks) = 1 /\ picks \subseteq SeqRange(picked)
    /\ picked' = SortedSeq(picks)
    /\ picked_pair' = pair_of(swapping_pairs, picked')
    /\ lastOp' = Op("on_pick", 0, 0, picks,
                    ~fill_shaded_areas_raises(tracklet_swaps, picked_pair'))
    /\ UNCHANGED <<storeVars, min_tracklet_frac, tableVars, cuts, slider_val,
                 single, is_connected>>
    /\ UNCHANGED <<mark_picked, playerVars, loaderVars>>

\* on_pick line 592: the target slot of each pick
reassign_inds(st, picks, num_individual) ==
    LET nrow == Min({s \in Slots : st.tracklet2id[s] = num_individual})
    IN [k \in DOMAIN picks |-> nrow + st.tracklet2bp[picks[k]]]

\* on_pick lines 595-599: the frames exchanged
reassign_mask(st, picks, one_frame, i) ==
    IF one_frame THEN {i}
    ELSE {f \in Frames : \A k \in DOMAIN picks :
             ~(IsNaN(st.xy[picks[k]][f][1]) \/ IsNaN(st.xy[picks[k]][f][2]))}

\* which pick's row a target slot named by several picks ends up with: numpy
\* leaves the order of an assignment through repeated indices undefined
Writers(st, picks, num_individual) ==
    LET inds == reassign_inds(st, picks, num_individual)
    IN {w \in [SeqRange(inds) -> DOMAIN picks] : \A t \in SeqRange(inds) : inds[w[t]] = t}

\* a reassignment that copies the picks' rows into the targets and leaves the
\* picks as they were
reassign_overwrite(st, picks, num_individual, mask, w, frac) ==
    LET inds == [k \in DOMAIN picks |->
                    Min({s \in Slots : st.tracklet2id[s] = num_individual})
                        + st.tracklet2bp[picks[k]]]
        moved(arr) == [s \in Slots |-> [f \in Frames |->
            IF f \in mask /\ s \in SeqRange(inds) THEN arr[picks[w[s]]][f]
            ELSE arr[s][f]]]
    IN [st EXCEPT !.xy = moved(st.xy), !.prob = moved(st.prob)]

\* on_pick lines 605-612: write the picks' rows into the targets, the targets'
\* former rows into the picks, toggle the picks' unidentified flag and
\* recompute the empty mask
reassign(st, picks, num_individual, mask, w, frac) ==
    LET inds == reassign_inds(st, picks, num_individual)
        moved(arr) == [s \in Slots |-> [f \in Frames |->
            IF f \notin mask THEN arr[s][f]
            ELSE IF \E k \in DOMAIN picks : picks[k] = s
                 THEN arr[inds[CHOOSE k \in DOMAIN picks : picks[k] = s]][f]
            ELSE IF s \in SeqRange(inds) THEN arr[picks[w[s]]][f]
            ELSE arr[s][f]]]
        st1 == [st EXCEPT
                  !.xy = moved(st.xy),
                  !.prob = moved(st.prob),
                  !.unidentified_tracklets = [s \in Slots |->
                      IF s \in SeqRange(picks) THEN ~st.unidentified_tracklets[s]
                      ELSE st.unidentified_tracklets[s]]]
    IN update_empty_mask(st1, frac)

\* on_pick lines 605-610 alone: the state the TypeError of line 611 leaves
\* when unidentified_tracklets is still the list of __init__
reassign_written(st, picks, num_individual, mask, w) ==
    LET inds == reassign_inds(st, picks, num_individual)
        moved(arr) == [s \in Slots |-> [f \in Frames |->
            IF f \notin mask THEN arr[s][f]
            ELSE IF \E k \in DOMAIN picks : picks[k] = s
                 THEN arr[inds[CHOOSE k \in DOMAIN picks : picks[k] = s]][f]
            ELSE IF s \in SeqRange(inds) THEN arr[picks[w[s]]][f]
            ELSE arr[s][f]]]
    IN [st EXCEPT !.xy = moved(st.xy), !.prob = moved(st.prob)]

\* on_pick, click on the legend line of individual num_individual
on_pick_legend(num_individual) ==
    /\ nops < MaxOps
    /\ nops' = nops + 1
    /\ IF picked = <<>>
       THEN /\ UNCHANGED storeVars
            /\ lastOp' = Op("legend", num_individual, 0, {}, TRUE)
            /\ picked_pair' = <<>>
       ELSE IF \E k \in DOMAIN picked :
                  reassign_inds(Store, picked, num_individual)[k] \notin Slots
       THEN /\ UNCHANGED storeVars
            /\ lastOp' = Op("legend", num_individual, 0, {}, FALSE)
            /\ UNCHANGED picked_pair
       ELSE \E w \in Writers(Store, picked, num_individual) :
            LET mask == reassign_mask(Store, picked, single, slider_val)
            IN IF unidentified_tracklets = <<>>
               THEN /\ SetStore(reassign_written(Store, picked, num_individual,
                                                 mask, w))
                    /\ UNCHANGED picked_pair
                    /\ lastOp' = Op("legend", num_individual, 0, mask, FALSE)
               ELSE /\ SetStore(reassign(Store, picked, num_individual, mask, w,
                                         min_tracklet_frac))
                    /\ picked_pair' = pair_of(swapping_pairs, picked)
                    /\ lastOp' = Op("legend", num_individual, 0, mask,
                                    ~fill_shaded_areas_raises(tracklet_swaps,
                                                              picked_pair'))
    /\ UNCHANGED <<min_tracklet_frac, tableVars, picked, cuts, slider_val,
                 single, is_connected>>
    /\ UNCHANGED <<mark_picked, playerVars, loaderVars>>

\* swap lines 560-563: inds = [0] + swap_inds + [nframes - 1], ind the first
\* position holding a value above i (np.argmax gives 0 when there is none, and
\* inds[ind - 1] is then the last element); the frames are
\* range(inds[ind - 1], inds[ind] + 1)
swap_range(swap_inds, i) ==
    LET inds == <<0>> \o swap_inds \o <<NFrames - 1>>
        above == {k \in DOMAIN inds : inds[k] > i}
        ind == IF above = {} THEN 1 ELSE Min(above)
        lo == IF ind = 1 THEN inds[Len(inds)] ELSE inds[ind - 1]
    IN lo .. inds[ind]

\* key s: TrackletVisualizer.swap
press_s ==
    /\ nops < MaxOps
    /\ nops' = nops + 1
    /\ IF picked_pair = <<>>
       THEN /\ UNCHANGED storeVars
            /\ lastOp' = Op("swap", 0, 0, {}, TRUE)
       ELSE IF get_swap_indices_raises(tracklet_swaps, picked_pair[1], picked_pair[2])
       THEN /\ UNCHANGED storeVars
            /\ lastOp' = Op("swap", picked_pair[1], picked_pair[2], {}, FALSE)
       ELSE LET F == swap_range(get_swap_indices(tracklet_swaps, picked_pair[1],
                                                 picked_pair[2]), slider_val)
            IN /\ SetStore(swap_tracklets(Store, picked_pair[1], picked_pair[2], F))
               /\ lastOp' = Op("swap", picked_pair[1], picked_pair[2], F, TRUE)
    /\ UNCHANGED <<min_tracklet_frac, tableVars, sessionVars>>
    /\ UNCHANGED <<mark_picked, playerVars, loaderVars>>

\* key i: TrackletVisualizer.invert; without a pair the call of swap_tracklets
\* lacks its arguments and raises TypeError
press_i ==
    /\ nops < MaxOps
    /\ nops' = nops + 1
    /\ IF picked_pair = <<>>
       THEN /\ UNCHANGED storeVars
            /\ lastOp' = Op("invert", 0, 0, {}, FALSE)
       ELSE IF swap_tracklets_raises(picked_pair[1], picked_pair[2], {slider_val})
       THEN /\ UNCHANGED storeVars
            /\ lastOp' = Op("invert", picked_pair[1], picked_pair[2], {slider_val}, FALSE)
       ELSE /\ SetStore(swap_tracklets(Store, picked_pair[1], picked_pair[2], {slider_val}))
            /\ lastOp' = Op("invert", picked_pair[1], picked_pair[2], {slider_val}, TRUE)
    /\ UNCHANGED <<min_tracklet_frac, tableVars, sessionVars>>
    /\ UNCHANGED <<mark_picked, playerVars, loaderVars>>

\* list.append followed by list.sort on a sorted list
RECURSIVE insert_sorted(_, _)
insert_sorted(seq, v) ==
    IF seq = <<>> THEN <<v>>
    ELSE IF v <= seq[1] THEN <<v>> \o seq
    ELSE <<seq[1]>> \o insert_sorted(Tail(seq), v)

\* key x: mark a frame; the second mark cuts the picked slot between the marks
\* (mark_picked remembers the slots picked when a first mark is made)
press_x ==
    /\ nops < MaxOps
    /\ nops' = nops + 1
    /\ mark_picked' = IF Len(cuts) = 0 THEN picked ELSE mark_picked
    /\ IF Len(cuts) = 0
       THEN /\ cuts' = <<slider_val>>
            /\ UNCHANGED storeVars
            /\ lastOp' = Op("x", 0, 0, {}, TRUE)
       ELSE LET marks == insert_sorted(cuts, slider_val)
                F == marks[1] .. marks[2]
            IN IF picked = <<>>
               THEN /\ cuts' = marks
                    /\ UNCHANGED storeVars
                    /\ lastOp' = Op("x", 0, 0, F, FALSE)
               ELSE IF swap_tracklets_raises(picked[1], ind_empty_of(Store), F)
               THEN /\ cuts' = marks
                    /\ SetStore(cut_tracklet_partial(Store, picked[1]))
                    /\ lastOp' = Op("x", picked[1], ind_empty_of(Store), F, FALSE)
               ELSE /\ cuts' = <<>>
                    /\ SetStore(cut_tracklet(Store, picked[1], F))
                    /\ lastOp' = Op("x", picked[1], ind_empty_of(Store), F, TRUE)
    /\ UNCHANGED <<min_tracklet_frac, tableVars, picked, picked_pair,
                 slider_val, single, is_connected>>
    /\ UNCHANGED <<playerVars, loaderVars>>

\* key right: move_forward
move_forward ==
    /\ nops < MaxOps
    /\ nops' = nops + 1
    /\ slider_val' = IF slider_val < NFrames - 1 THEN slider_val + 1 ELSE slider_val
    /\ lastOp' = Op("move_forward", 0, 0, {}, TRUE)
    /\ UNCHANGED <<storeVars, min_tracklet_frac, tableVars, picked,
                 picked_pair, cuts, single, is_connected>>
    /\ UNCHANGED <<mark_picked, playerVars, loaderVars>>

\* key left: move_backward
move_backward ==
    /\ nops < MaxOps
    /\ nops' = nops + 1
    /\ slider_val' = IF slider_val > 0 THEN slider_val - 1 ELSE slider_val
    /\ lastOp' = Op("move_backward", 0, 0, {}, TRUE)
    /\ UNCHANGED <<storeVars, min_tracklet_frac, tableVars, picked,
                 picked_pair, cuts, single, is_connected>>
    /\ UNCHANGED <<mark_picked, playerVars, loaderVars>>

\* the Single check button
toggle_single_frame_edit ==
    /\ nops < MaxOps
    /\ nops' = nops + 1
    /\ single' = ~single
    /\ lastOp' = Op("toggle_single", 0, 0, {}, TRUE)
    /\ UNCHANGED <<storeVars, min_tracklet_frac, tableVars, picked,
                 picked_pair, cuts, slider_val, is_connected>>
    /\ UNCHANGED <<mark_picked, playerVars, loaderVars>>

\* manager.find_swapping_bodypart_pairs(force_find); lastOp.a is 1 for a call
\* with force_find
find_swapping_bodypart_pairs(force_find) ==
    /\ nops < MaxOps
    /\ nops' = nops + 1
    /\ IF swapping_pairs = <<>> \/ force_find
       THEN /\ tracklet_swaps' = tracklet_swaps_of(Store)
            /\ swapping_pairs' = swapping_pairs_of(Store)
       ELSE UNCHANGED tableVars
    /\ lastOp' = Op("find", IF force_find THEN 1 ELSE 0, 0, {}, TRUE)
    /\ UNCHANGED <<storeVars, min_tracklet_frac, sessionVars>>
    /\ UNCHANGED <<mark_picked, playerVars, loaderVars>>

Next ==
    \/ \E picks \in SUBSET Slots : on_pick_data(picks)
    \/ \E num_individual \in 0 .. (NIndividuals - 1) : on_pick_legend(num_individual)
    \/ press_s
    \/ press_i
    \/ press_x
    \/ move_forward
    \/ move_backward
    \/ toggle_single_frame_edit
    \/ \E force_find \in BOOLEAN : find_swapping_bodypart_pairs(force_find)

Spec == Init /\ [][Next]_vars

\* ------------------------------------ the session on a computed table
\* SpecPaired is the session opened on a manager whose
\* find_swapping_bodypart_pairs has run after loading, with the commands
\* that select a frame, select slots and act on the selected pair.
\* A loaded table as loaded_xy, its bodyparts set 1 apart: slots of different
\* bodyparts of neighbouring individuals cross as well.
close_xy(hole, kind) ==
    [s \in Slots |-> [f \in Frames |->
        LET base == IF (s \div NBodyparts) % 2 = 0 THEN f ELSE NFrames - 1 - f
            v == base + (s % NBodyparts)
        IN IF s = hole /\ (kind = "empty" \/ f # 0)
           THEN <<NaN, NaN>> ELSE <<v, v + 1>>]]

InitPaired ==
    /\ \E hole \in SlotArgs, kind \in {"sparse", "empty"},
          frac \in MinTrackletFracs, close \in BOOLEAN :
          /\ min_tracklet_frac = frac
          /\ LET arr == IF close THEN close_xy(hole, kind)
                        ELSE loaded_xy(hole, kind)
                 st == finalize(arr, loaded_prob(hole, kind), frac)
             IN /\ xy = st.xy
                /\ prob = st.prob
                /\ tracklet2id = st.tracklet2id
                /\ tracklet2bp = st.tracklet2bp
                /\ empty_tracklets = st.empty_tracklets
                /\ unidentified_tracklets = st.unidentified_tracklets
                /\ tracklet_swaps = tracklet_swaps_of(st)
                /\ swapping_pairs = swapping_pairs_of(st)
    /\ picked = <<>>
    /\ picked_pair = <<>>
    /\ cuts = <<>>
    /\ slider_val = 0
    /\ single = FALSE
    /\ is_connected = FALSE
    /\ mark_picked = <<>>
    /\ InitPlayer
    /\ InitLoader
    /\ lastOp = Op("find", 0, 0, {}, TRUE)
    /\ nops = 0

\* on_click: a click at time i of the x or y trace plot, off the traces
on_click(i) ==
    /\ nops < MaxOps
    /\ nops' = nops + 1
    /\ slider_val' = i
    /\ lastOp' = Op("on_click", i, 0, {}, TRUE)
    /\ UNCHANGED <<storeVars, min_tracklet_frac, tableVars, picked, picked_pair,
                   cuts, single, is_connected>>
    /\ UNCHANGED <<mark_picked, playerVars, loaderVars>>

\* key l: PointSelector.toggle
press_l ==
    /\ nops < MaxOps
    /\ nops' = nops + 1
    /\ is_connected' = ~is_connected
    /\ lastOp' = Op("l", 0, 0, {}, TRUE)
    /\ UNCHANGED <<storeVars, min_tracklet_frac, tableVars, picked, picked_pair,
                   cuts, slider_val, single>>
    /\ UNCHANGED <<mark_picked, playerVars, loaderVars>>

\* PointSelector.on_select: the lasso encloses the points of the slots sel
on_select(sel) ==
    /\ nops < MaxOps
    /\ is_connected
    /\ sel \subseteq shown_at(slider_val)
    /\ Cardinality(sel) <= MaxPicked
    /\ nops' = nops + 1
    /\ picked' = SortedSeq(sel)
    /\ lastOp' = Op("on_select", 0, 0, sel, TRUE)
    /\ UNCHANGED <<storeVars, min_tracklet_frac, tableVars, picked_pair, cuts,
                   slider_val, single, is_connected>>
    /\ UNCHANGED <<mark_picked, playerVars, loaderVars>>

NextPaired ==
    \/ \E i \in Frames : on_click(i)
    \/ \E picks \in SUBSET Slots : on_pick_data(picks)
    \/ press_l
    \/ \E sel \in SUBSET Slots : on_select(sel)
    \/ press_s
    \/ press_i

SpecPaired == InitPaired /\ [][NextPaired]_vars

\* ------------------------------------- a cut followed by a reassignment
\* SpecCutBack applies, to every loaded table, one call of cut_tracklet with
\* every argument, then a pick of the slot the cut has filled, then a click
\* on the legend line of an individual.
\* on_pick on the scatter plot, on the point of the slot the cut has filled
pick_cut_slot ==
    /\ lastOp.op = "cut_tracklet"
    /\ lastOp.ok
    /\ on_pick_data({lastOp.b})

\* on_pick on a legend line with the cut slot picked
reassign_cut_slot ==
    /\ lastOp.op = "on_pick"
    /\ \E num_individual \in 0 .. (NIndividuals - 1) : on_pick_legend(num_individual)

NextCutBack ==
    \/ call_cut_tracklet
    \/ pick_cut_slot
    \/ reassign_cut_slot

SpecCutBack == Init /\ [][NextCutBack]_vars

\* -------------------------------------------- the swap detector's tables
\* SpecDetect runs find_swapping_bodypart_pairs on tables that hold two
\* tracklets: one whose detection at every frame is any point of a small grid
\* or missing, and one that stays at a point or moves along the anti-diagonal.
\* They lie in slots of different individuals, lower slot first or second, or
\* in two slots of one individual; every other slot of the table is empty.
Points == {<<NaN, NaN>>} \cup ((0 .. MaxCoord) \X (0 .. MaxCoord))

RefTracks ==
    {[f \in Frames |-> <<1, 1>>],
     [f \in Frames |-> <<Min({f, MaxCoord}), MaxCoord - Min({f, MaxCoord})>>]}

\* <<slot of the free tracklet, slot of the reference tracklet>>
Placements == {<<0, NBodyparts>>, <<NBodyparts + 1, 0>>, <<0, 1>>}

detected_xy(place, track, reftrack) ==
    [s \in Slots |->
        IF s = place[1] THEN track
        ELSE IF s = place[2] THEN reftrack
        ELSE [f \in Frames |-> <<NaN, NaN>>]]

detected_prob(arr) ==
    [s \in Slots |-> [f \in Frames |->
        IF IsNaN(arr[s][f][1]) THEN NaN ELSE 1 + s * NFrames + f]]

InitDetect ==
    /\ \E place \in Placements, track \in [Frames -> Points],
          reftrack \in RefTracks :
          LET arr == detected_xy(place, track, reftrack)
              st == finalize(arr, detected_prob(arr), <<1, 100>>)
          IN /\ xy = st.xy
             /\ prob = st.prob
             /\ tracklet2id = st.tracklet2id
             /\ tracklet2bp = st.tracklet2bp
             /\ empty_tracklets = st.empty_tracklets
             /\ unidentified_tracklets = st.unidentified_tracklets
    /\ min_tracklet_frac = <<1, 100>>
    /\ swapping_pairs = <<>>
    /\ tracklet_swaps = <<>>
    /\ picked = <<>>
    /\ picked_pair = <<>>
    /\ cuts = <<>>
    /\ slider_val = 0
    /\ single = FALSE
    /\ is_connected = FALSE
    /\ mark_picked = <<>>
    /\ InitPlayer
    /\ InitLoader
    /\ lastOp = Op("load", 0, 0, {}, TRUE)
    /\ nops = 0

\* manager.swap_tracklets(a, b, F) called on two slots not flagged empty, once
\* the detector has run
call_swap_nonempty ==
    /\ nops < MaxOps
    /\ lastOp.op = "find"
    /\ nops' = nops + 1
    /\ \E a \in Slots, b \in Slots, F \in SUBSET Frames :
          /\ a < b
          /\ ~empty_tracklets[a]
          /\ ~empty_tracklets[b]
          /\ SetStore(swap_tracklets(Store, a, b, F))
          /\ lastOp' = Op("swap_tracklets", a, b, F, TRUE)
    /\ UNCHANGED <<min_tracklet_frac, tableVars, sessionVars>>
    /\ UNCHANGED <<mark_picked, playerVars, loaderVars>>

NextDetect ==
    \/ \E force_find \in BOOLEAN : find_swapping_bodypart_pairs(force_find)
    \/ call_swap_nonempty

SpecDetect == InitDetect /\ [][NextDetect]_vars

\* --------------------------------------------------- the pickle loader
\* load_tracklets_from_pickle on a file of NRaw raw tracklets.  The
\* configuration lists NIndividuals individuals, NBodyparts multi-animal
\* bodyparts and NSingle unique bodyparts, as many as make the table as large
\* as the one load_tracklets_from_hdf reads.
NSingle == NExtraInd * NBodyparts

\* columns of the multi-animal and of the single-animal containers: x, y and
\* confidence of each bodypart
MultiCols == 0 .. (3 * NBodyparts - 1)
SingleCols == 0 .. (3 * NSingle - 1)

\* the value raw tracklet num holds in column c of a frame it covers: x is the
\* tracklet's number, y the bodypart, the confidence is conf on the even
\* bodyparts and MaxConf + 1 - conf on the odd ones
raw_value(num, conf, c) ==
    IF c % 3 = 0 THEN num
    ELSE IF c % 3 = 1 THEN c \div 3
    ELSE IF (c \div 3) % 2 = 0 THEN conf
    ELSE MaxConf + 1 - conf

\* to_fill of lines 178-181, its multi-animal and single-animal columns apart:
\* a raw tracklet holds complete triples, of every bodypart of its kind, at
\* the frames it covers
to_fill(num, kind, frames, conf) ==
    [multi |-> [f \in Frames |-> [c \in MultiCols |->
                  IF kind = "multi" /\ f \in frames
                  THEN raw_value(num, conf, c) ELSE NaN]],
     single |-> [f \in Frames |-> [c \in SingleCols |->
                  IF kind = "single" /\ f \in frames
                  THEN raw_value(num, conf, c) ELSE NaN]]]

\* lines 182-189: the entry of temp for raw tracklet num
temp_of(num, fill) ==
    LET is_single == \A f \in Frames, c \in MultiCols : IsNaN(fill.multi[f][c])
        data == IF is_single THEN fill.single ELSE fill.multi
        nonempty == {f \in Frames : \E c \in DOMAIN data[f] : ~IsNaN(data[f][c])}
    IN [num |-> num, data |-> data, completeness |-> Cardinality(nonempty),
        is_single |-> is_single]

\* an insertion that sorts by descending completeness
RECURSIVE insert_descending(_, _)
insert_descending(seq, e) ==
    IF seq = <<>> THEN <<e>>
    ELSE IF e.completeness > seq[1].completeness THEN <<e>> \o seq
    ELSE <<seq[1]>> \o insert_descending(Tail(seq), e)

\* sorted() is stable: an entry goes behind those of at most its completeness
RECURSIVE insert_by_completeness(_, _)
insert_by_completeness(seq, e) ==
    IF seq = <<>> THEN <<e>>
    ELSE IF e.completeness < seq[1].completeness THEN <<e>> \o seq
    ELSE <<seq[1]>> \o insert_by_completeness(Tail(seq), e)

\* line 190: sorted(temp.items(), key=lambda kv: kv[1][1])
RECURSIVE sorted_by_completeness(_)
sorted_by_completeness(temp) ==
    IF temp = <<>> THEN <<>>
    ELSE insert_by_completeness(
             sorted_by_completeness(SubSeq(temp, 1, Len(temp) - 1)),
             temp[Len(temp)])

\* np.full(..., np.nan) of lines 193-194
empty_multi ==
    [i \in 0 .. (NIndividuals - 1) |-> [f \in Frames |-> [c \in MultiCols |-> NaN]]]

empty_single == [f \in Frames |-> [c \in SingleCols |-> NaN]]

\* a placement that also replaces a stored triple of equal confidence
place_single_on_ties(stored, data) ==
    LET n == 3 * NSingle
        overwrite == SortedSeq({f * n + c : <<f, c>> \in
                        {fc \in Frames \X SingleCols :
                            /\ ~IsNaN(data[fc[1]][fc[2]])
                            /\ ~IsNaN(stored[fc[1]][fc[2]])}})
        inds == {m \in 0 .. ((Len(overwrite) \div 3) - 1) :
                    data[overwrite[3 * m + 3] \div n][overwrite[3 * m + 3] % n]
                       >= stored[overwrite[3 * m + 3] \div n][overwrite[3 * m + 3] % n]}
        written == {overwrite[k] : k \in
                       {k \in DOMAIN overwrite : (k - 1) \div 3 \in inds}}
    IN [f \in Frames |-> [c \in SingleCols |->
          IF ~IsNaN(data[f][c]) /\ (IsNaN(stored[f][c]) \/ f * n + c \in written)
          THEN data[f][c] ELSE stored[f][c]]]

\* lines 199-212: copy the data into the free cells; of the cells already
\* filled, listed row by row, every third one from the third holds a
\* confidence, and where the tracklet's is greater the three cells ending
\* there are overwritten
place_single(stored, data) ==
    LET n == 3 * NSingle
        overwrite == SortedSeq({f * n + c : <<f, c>> \in
                        {fc \in Frames \X SingleCols :
                            /\ ~IsNaN(data[fc[1]][fc[2]])
                            /\ ~IsNaN(stored[fc[1]][fc[2]])}})
        inds == {m \in 0 .. ((Len(overwrite) \div 3) - 1) :
                    data[overwrite[3 * m + 3] \div n][overwrite[3 * m + 3] % n]
                       > stored[overwrite[3 * m + 3] \div n][overwrite[3 * m + 3] % n]}
        written == {overwrite[k] : k \in
                       {k \in DOMAIN overwrite : (k - 1) \div 3 \in inds}}
    IN [f \in Frames |-> [c \in SingleCols |->
          IF ~IsNaN(data[f][c]) /\ (IsNaN(stored[f][c]) \/ f * n + c \in written)
          THEN data[f][c] ELSE stored[f][c]]]

\* lines 214-239: with an individual the data overwrites nothing of, the data
\* goes to the first such; else the data is written into every individual
\* whose cell is free (mask is computed once, before the loop of lines
\* 221-224), and each triple left goes to the individual whose stored
\* confidence is lowest, when the tracklet's is greater
place_multi(multi, data) ==
    LET n == 3 * NBodyparts
        Ids == 0 .. (NIndividuals - 1)
        overwrite_risk == [i \in Ids |->
            \E f \in Frames, c \in MultiCols :
                ~IsNaN(data[f][c]) /\ ~IsNaN(multi[i][f][c])]
    IN IF \A i \in Ids : overwrite_risk[i]
       THEN LET mask == [i \in Ids |-> [f \in Frames |-> [c \in MultiCols |->
                            ~IsNaN(data[f][c]) /\ IsNaN(multi[i][f][c])]]]
                squeezed == [i \in Ids |-> [f \in Frames |-> [c \in MultiCols |->
                            IF mask[i][f][c] THEN data[f][c] ELSE multi[i][f][c]]]]
                left == SortedSeq({f * n + c : <<f, c>> \in
                            {fc \in Frames \X MultiCols :
                                /\ ~IsNaN(data[fc[1]][fc[2]])
                                /\ \A i \in Ids : ~mask[i][fc[1]][fc[2]]}})
                diff == [i \in Ids |-> [j \in 0 .. ((Len(left) \div 3) - 1) |->
                            data[left[3 * j + 3] \div n][left[3 * j + 3] % n]
                              - squeezed[i][left[3 * j + 3] \div n][left[3 * j + 3] % n]]]
                largest_diff == [j \in 0 .. ((Len(left) \div 3) - 1) |->
                            Min({i \in Ids : \A i2 \in Ids : diff[i2][j] <= diff[i][j]})]
                better == {j \in 0 .. ((Len(left) \div 3) - 1) :
                            diff[largest_diff[j]][j] > 0}
            IN [i \in Ids |-> [f \in Frames |-> [c \in MultiCols |->
                  IF \E k \in DOMAIN left :
                        /\ left[k] = f * n + c
                        /\ (k - 1) \div 3 \in better
                        /\ largest_diff[(k - 1) \div 3] = i
                  THEN data[f][c] ELSE squeezed[i][f][c]]]]
       ELSE LET ind == Min({i \in Ids : ~overwrite_risk[i]})
            IN [i \in Ids |-> [f \in Frames |-> [c \in MultiCols |->
                  IF i = ind /\ ~IsNaN(data[f][c]) THEN data[f][c]
                  ELSE multi[i][f][c]]]]

\* lines 241-249: the slots of the individuals, bodypart by bodypart, then
\* those of the unique bodyparts; finalize is not called, the masks stay the
\* empty lists of __init__
assembled(multi, stored) ==
    LET nmulti == NIndividuals * NBodyparts
        cell(s, f, k) == IF s < nmulti
                         THEN multi[s \div NBodyparts][f][3 * (s % NBodyparts) + k]
                         ELSE stored[f][3 * (s - nmulti) + k]
    IN [xy |-> [s \in Slots |-> [f \in Frames |-> <<cell(s, f, 0), cell(s, f, 1)>>]],
        prob |-> [s \in Slots |-> [f \in Frames |-> cell(s, f, 2)]],
        tracklet2id |-> [s \in Slots |->
            IF s < nmulti THEN s \div NBodyparts ELSE NIndividuals],
        tracklet2bp |-> [s \in Slots |->
            IF s < nmulti THEN s % NBodyparts ELSE NBodyparts + (s - nmulti)],
        empty_tracklets |-> <<>>,
        unidentified_tracklets |-> <<>>]

\* the files: every raw tracklet is of one kind, covers some frames and has a
\* confidence level; the last frame is covered (line 165 reads nframes off it)
RawFiles ==
    {file \in [1 .. NRaw -> [kind : {"single", "multi"},
                            frames : (SUBSET Frames) \ {{}},
                            conf : 1 .. MaxConf]] :
        \E k \in 1 .. NRaw : NFrames - 1 \in file[k].frames}

\* lines 176-189
temp_of_file(file) ==
    [k \in 1 .. NRaw |->
        temp_of(k - 1, to_fill(k - 1, file[k].kind, file[k].frames, file[k].conf))]

\* the manager of __init__ before the loop of line 195
InitLoad ==
    /\ \E file \in RawFiles :
          /\ tracklets = temp_of_file(file)
          /\ tracklets_sorted = sorted_by_completeness(temp_of_file(file))
    /\ tracklets_multi = empty_multi
    /\ tracklets_single = empty_single
    /\ xy = <<>>
    /\ prob = <<>>
    /\ tracklet2id = <<>>
    /\ tracklet2bp = <<>>
    /\ empty_tracklets = <<>>
    /\ unidentified_tracklets = <<>>
    /\ min_tracklet_frac = <<1, 100>>
    /\ swapping_pairs = <<>>
    /\ tracklet_swaps = <<>>
    /\ picked = <<>>
    /\ picked_pair = <<>>
    /\ cuts = <<>>
    /\ slider_val = 0
    /\ single = FALSE
    /\ is_connected = FALSE
    /\ mark_picked = <<>>
    /\ InitPlayer
    /\ lastOp = Op("pickle", 0, 0, {}, TRUE)
    /\ nops = 0

\* one pass of the loop of lines 195-239; lastOp.a is the tracklet's number
place_tracklet ==
    /\ tracklets_sorted # <<>>
    /\ LET e == tracklets_sorted[Len(tracklets_sorted)]
       IN /\ tracklets_sorted' = SubSeq(tracklets_sorted, 1, Len(tracklets_sorted) - 1)
          /\ IF e.is_single
             THEN /\ tracklets_single' = place_single(tracklets_single, e.data)
                  /\ UNCHANGED tracklets_multi
             ELSE /\ tracklets_multi' = place_multi(tracklets_multi, e.data)
                  /\ UNCHANGED tracklets_single
          /\ lastOp' = Op("place", e.num, 0, {}, TRUE)
    /\ UNCHANGED <<storeVars, min_tracklet_frac, tableVars, sessionVars,
                   mark_picked, playerVars, tracklets, nops>>

\* lines 241-249, once the loop has ended
assemble ==
    /\ tracklets_sorted = <<>>
    /\ lastOp.op \in {"pickle", "place"}
    /\ SetStore(assembled(tracklets_multi, tracklets_single))
    /\ lastOp' = Op("load_pickle", 0, 0, {}, TRUE)
    /\ UNCHANGED <<min_tracklet_frac, tableVars, sessionVars, mark_picked,
                   playerVars, loaderVars, nops>>

NextLoad ==
    \/ place_tracklet
    \/ assemble

SpecLoad == InitLoad /\ [][NextLoad]_vars

\* ------------------------------------- the session on a pickle's table
\* SpecPickled is the session refine_tracklets opens: on the manager
\* load_tracklets_from_pickle has filled, with picks on the scatter plot and
\* clicks on the legend, whose lines are the individuals and 'single'.
\* the loop of lines 195-239 run to its end, and lines 241-249
RECURSIVE place_all(_, _, _)
place_all(sorted, multi, stored) ==
    IF sorted = <<>> THEN assembled(multi, stored)
    ELSE LET e == sorted[Len(sorted)]
         IN place_all(SubSeq(sorted, 1, Len(sorted) - 1),
                      IF e.is_single THEN multi ELSE place_multi(multi, e.data),
                      IF e.is_single THEN place_single(stored, e.data) ELSE stored)

load_tracklets_from_pickle(file) ==
    place_all(sorted_by_completeness(temp_of_file(file)), empty_multi, empty_single)

\* the files whose raw tracklets cover every frame or the first frame only
PickledFiles ==
    {file \in RawFiles : \A k \in 1 .. NRaw : file[k].frames \in {Frames, {0}}}

InitPickled ==
    /\ \E file \in PickledFiles :
          /\ tracklets = temp_of_file(file)
          /\ LET st == load_tracklets_from_pickle(file)
             IN /\ xy = st.xy
                /\ prob = st.prob
                /\ tracklet2id = st.tracklet2id
                /\ tracklet2bp = st.tracklet2bp
                /\ empty_tracklets = st.empty_tracklets
                /\ unidentified_tracklets = st.unidentified_tracklets
    /\ tracklets_sorted = <<>>
    /\ tracklets_multi = <<>>
    /\ tracklets_single = <<>>
    /\ min_tracklet_frac = <<1, 100>>
    /\ swapping_pairs = <<>>
    /\ tracklet_swaps = <<>>
    /\ picked = <<>>
    /\ picked_pair = <<>>
    /\ cuts = <<>>
    /\ slider_val = 0
    /\ single = FALSE
    /\ is_connected = FALSE
    /\ mark_picked = <<>>
    /\ InitPlayer
    /\ lastOp = Op("load_pickle", 0, 0, {}, TRUE)
    /\ nops = 0

NextPickled ==
    \/ \E picks \in SUBSET Slots : on_pick_data(picks)
    \/ \E num_individual \in 0 .. NIndividuals : on_pick_legend(num_individual)
    \/ move_forward
    \/ toggle_single_frame_edit

SpecPickled == InitPickled /\ [][NextPickled]_vars

\* ------------------------------------------- marks on a picked tracklet
\* SpecMark is the session on a loaded table in which the operator has
\* picked points on the scatter plot at frame 0, followed by x key presses,
\* picks and moves.
InitMark ==
    /\ \E hole \in SlotArgs, kind \in {"sparse", "empty"},
          frac \in MinTrackletFracs :
          /\ min_tracklet_frac = frac
          /\ LET st == finalize(loaded_xy(hole, kind), loaded_prob(hole, kind), frac)
             IN /\ xy = st.xy
                /\ prob = st.prob
                /\ tracklet2id = st.tracklet2id
                /\ tracklet2bp = st.tracklet2bp
                /\ empty_tracklets = st.empty_tracklets
                /\ unidentified_tracklets = st.unidentified_tracklets
                /\ \E picks \in SUBSET Slots :
                      /\ picks # {}
                      /\ Cardinality(picks) <= MaxPicked
                      /\ \A s \in picks : ~IsNaN(st.xy[s][0][1])
                      /\ picked = SortedSeq(picks)
                      /\ lastOp = Op("on_pick", 0, 0, picks, TRUE)
    /\ swapping_pairs = <<>>
    /\ tracklet_swaps = <<>>
    /\ picked_pair = <<>>
    /\ cuts = <<>>
    /\ slider_val = 0
    /\ single = FALSE
    /\ is_connected = FALSE
    /\ mark_picked = <<>>
    /\ InitPlayer
    /\ InitLoader
    /\ nops = 0

NextMark ==
    \/ press_x
    \/ \E picks \in SUBSET Slots : on_pick_data(picks)
    \/ move_forward
    \/ move_backward

SpecMark == InitMark /\ [][NextMark]_vars

\* --------------------------------------- playback beside the operator
\* SpecPlayer is the session's frame navigation with the thread of
\* BackgroundPlayer.run running beside the operator's key presses; the
\* operator's handlers run in the GUI thread, one at a time, and stop coming
\* once the window is closed.
\* BackgroundPlayer.run, "while self.running"
run_while ==
    /\ pc = "while"
    /\ pc' = IF running THEN "wait" ELSE "done"
    /\ UNCHANGED <<storeVars, min_tracklet_frac, tableVars, sessionVars,
                   mark_picked, running, can_run, paused, speed, player_i,
                   loaderVars, lastOp, nops>>

\* self.can_run.wait(): returns once the event is set
run_wait ==
    /\ pc = "wait"
    /\ can_run
    /\ pc' = "read"
    /\ UNCHANGED <<storeVars, min_tracklet_frac, tableVars, sessionVars,
                   mark_picked, running, can_run, paused, speed, player_i,
                   loaderVars, lastOp, nops>>

\* line 38: i = self.viz.slider.val + 1
run_read ==
    /\ pc = "read"
    /\ player_i' = slider_val + 1
    /\ pc' = "speed"
    /\ UNCHANGED <<storeVars, min_tracklet_frac, tableVars, sessionVars,
                   mark_picked, running, can_run, paused, speed, loaderVars,
                   lastOp, nops>>

\* lines 39-46: the jump of a fast forward or a rewind, and the wrap
run_speed ==
    /\ pc = "speed"
    /\ LET i == IF speed[1] = "F" THEN player_i + 2 * speed[2]
                ELSE IF speed[1] = "R" THEN player_i - 2 * speed[2]
                ELSE player_i
       IN player_i' = IF i > NFrames THEN 0
                      ELSE IF i < 0 THEN NFrames
                      ELSE i
    /\ pc' = "set"
    /\ UNCHANGED <<storeVars, min_tracklet_frac, tableVars, sessionVars,
                   mark_picked, running, can_run, paused, speed, loaderVars,
                   lastOp, nops>>

\* line 47: self.viz.slider.set_val(i)
run_set_val ==
    /\ pc = "set"
    /\ slider_val' = player_i
    /\ pc' = "while"
    /\ UNCHANGED <<storeVars, min_tracklet_frac, tableVars, picked,
                   picked_pair, cuts, single, is_connected, mark_picked,
                   running, can_run, paused, speed, player_i, loaderVars,
                   lastOp, nops>>

\* the steps of the player's thread
run ==
    \/ run_while
    \/ run_wait
    \/ run_read
    \/ run_speed
    \/ run_set_val

\* key right, while the window is open
key_right == running /\ move_forward

\* key left, while the window is open
key_left == running /\ move_backward

\* key shift+right: move_to_next_unidentified; np.argmin of the empty mask of
\* a frame index beyond the array raises ValueError
move_to_next_unidentified ==
    /\ running
    /\ nops < MaxOps
    /\ nops' = nops + 1
    /\ IF slider_val \notin Frames
       THEN /\ UNCHANGED slider_val
            /\ lastOp' = Op("move_to_next", 0, 0, {}, FALSE)
       ELSE LET seen == {f \in slider_val .. (NFrames - 1) :
                           \E s \in Slots :
                              /\ s >= NIndividuals * NBodyparts
                              /\ ~(IsNaN(xy[s][f][1]) \/ IsNaN(xy[s][f][2]))}
                ind == IF seen = {} THEN 0 ELSE Min(seen) - slider_val
            IN /\ slider_val' = slider_val + ind
               /\ lastOp' = Op("move_to_next", 0, 0, {}, TRUE)
    /\ UNCHANGED <<storeVars, min_tracklet_frac, tableVars, picked,
                   picked_pair, cuts, single, is_connected, mark_picked,
                   playerVars, loaderVars>>

\* key tab: BackgroundPlayer.toggle
press_tab ==
    /\ running
    /\ nops < MaxOps
    /\ nops' = nops + 1
    /\ can_run' = paused
    /\ paused' = ~paused
    /\ lastOp' = Op("tab", 0, 0, {}, TRUE)
    /\ UNCHANGED <<storeVars, min_tracklet_frac, tableVars, sessionVars,
                   mark_picked, running, speed, pc, player_i, loaderVars>>

\* BackgroundPlayer.forward and rewind: the speed after one more key press
faster(letter) ==
    LET kept == IF speed[1] = letter THEN speed[2] ELSE 0
    IN <<letter, IF kept < MaxSpeed THEN kept + 1 ELSE kept>>

\* key alt+right: BackgroundPlayer.forward
press_alt_right ==
    /\ running
    /\ nops < MaxOps
    /\ nops' = nops + 1
    /\ speed' = faster("F")
    /\ can_run' = TRUE
    /\ paused' = FALSE
    /\ lastOp' = Op("alt+right", 0, 0, {}, TRUE)
    /\ UNCHANGED <<storeVars, min_tracklet_frac, tableVars, sessionVars,
                   mark_picked, running, pc, player_i, loaderVars>>

\* key alt+left: BackgroundPlayer.rewind
press_alt_left ==
    /\ running
    /\ nops < MaxOps
    /\ nops' = nops + 1
    /\ speed' = faster("R")
    /\ can_run' = TRUE
    /\ paused' = FALSE
    /\ lastOp' = Op("alt+left", 0, 0, {}, TRUE)
    /\ UNCHANGED <<storeVars, min_tracklet_frac, tableVars, sessionVars,
                   mark_picked, running, pc, player_i, loaderVars>>

\* close_event: BackgroundPlayer.terminate
terminate ==
    /\ running
    /\ running' = FALSE
    /\ lastOp' = Op("terminate", 0, 0, {}, TRUE)
    /\ UNCHANGED <<storeVars, min_tracklet_frac, tableVars, sessionVars,
                   mark_picked, can_run, paused, speed, pc, player_i,
                   loaderVars, nops>>

NextPlayer ==
    \/ run
    \/ key_right
    \/ key_left
    \/ move_to_next_unidentified
    \/ press_tab
    \/ press_alt_right
    \/ press_alt_left
    \/ terminate

SpecPlayer == Init /\ [][NextPlayer]_vars

\* the player's thread is scheduled again and again
SpecPlayerFair == SpecPlayer /\ WF_vars(run)

\* ------------------------------------------------------------ properties
\* the (x, y, confidence) triple of a cell
triple(st, s, f) == <<st.xy[s][f][1], st.xy[s][f][2], st.prob[s][f]>>

NoDetection == <<NaN, NaN, NaN>>

\* how many cells of the array hold the triple v
triple_count(st, v) ==
    Cardinality({c \in Slots \X Frames : triple(st, c[1], c[2]) = v})

\* C1: a successful swap_tracklets(A, B, F) followed by the same call again
\* brings the array (xy, prob) and both identity maps back to what they were
\* before the first call.
C1_SwapTwiceRestores ==
    [][(lastOp'.op = "swap_tracklets" /\ lastOp'.ok) =>
          /\ ~swap_tracklets_raises(lastOp'.a, lastOp'.b, lastOp'.F)
          /\ swap_tracklets(Store', lastOp'.a, lastOp'.b, lastOp'.F) = Store]_vars

\* a swap of two different slots that changed the array and the bodypart map
C1_Witness ==
    /\ lastOp.op = "swap_tracklets"
    /\ lastOp.ok
    /\ lastOp.a # lastOp.b
    /\ tracklet2bp[lastOp.a] # lastOp.a % NBodyparts
    /\ \E f \in lastOp.F : triple(Store, lastOp.a, f) # triple(Store, lastOp.b, f)

\* C2: after swap_tracklets(A, B, F) slot A holds at every frame of F the
\* triple slot B held and slot B the triple slot A held, and every cell of
\* another slot or of a frame outside F is as it was.
C2_SwapFrameEffect ==
    [][(lastOp'.op = "swap_tracklets" /\ lastOp'.ok) =>
          LET A == lastOp'.a
              B == lastOp'.b
              F == lastOp'.F
          IN /\ \A f \in F :
                  /\ triple(Store', A, f) = triple(Store, B, f)
                  /\ triple(Store', B, f) = triple(Store, A, f)
             /\ \A s \in Slots, f \in Frames :
                  (s \notin {A, B} \/ f \notin F) =>
                      triple(Store', s, f) = triple(Store, s, f)]_vars

\* a swap over some but not all frames, of slots that differ inside and
\* outside the swapped frames
C2_Witness ==
    /\ lastOp.op = "swap_tracklets"
    /\ lastOp.ok
    /\ lastOp.F # {}
    /\ \E f \in Frames \ lastOp.F :
          triple(Store, lastOp.a, f) # triple(Store, lastOp.b, f)
    /\ \E f \in lastOp.F :
          /\ triple(Store, lastOp.a, f) # NoDetection
          /\ triple(Store, lastOp.a, f) # triple(Store, lastOp.b, f)

\* C3: every identified slot s < nindividuals * nbodyparts keeps
\* tracklet2id[s] = s // nbodyparts and tracklet2bp[s] = s % nbodyparts in
\* every state the session commands reach.
C3_IdentifiedMapsFixed ==
    \A s \in 0 .. (NIndividuals * NBodyparts - 1) :
        /\ tracklet2id[s] = s \div NBodyparts
        /\ tracklet2bp[s] = s % NBodyparts

\* C4: after every completed mutating operation the empty mask is up to
\* date: empty[s] exactly when the completeness of s is at most
\* min_tracklet_frac * nframes.
C4_EmptyMaskUpToDate ==
    lastOp.ok =>
        \A s \in Slots :
            empty_tracklets[s] <=>
                (calc_completeness(xy)[s] * min_tracklet_frac[2]
                    <= min_tracklet_frac[1] * NFrames)

\* C5: in every state the session commands reach, a slot is flagged
\* unidentified exactly when it lies beyond the identified slots and is not
\* flagged empty.
C5_UnidentifiedMask ==
    \A s \in Slots :
        unidentified_tracklets[s] <=>
            (s >= NIndividuals * NBodyparts /\ ~empty_tracklets[s])

\* C6: a cut of frames of the array from a slot of the array moves data only
\* into the lowest slot flagged empty, and with no slot flagged empty it is
\* rejected and leaves the store as it was.
C6_CutOnlyIntoEmpty ==
    [][(/\ lastOp'.op = "cut_tracklet"
        /\ lastOp'.a \in Slots
        /\ lastOp'.F \subseteq Frames) =>
          IF \E s \in Slots : empty_tracklets[s]
          THEN lastOp'.ok =>
                  lastOp'.b = Min({s \in Slots : empty_tracklets[s]})
          ELSE ~lastOp'.ok /\ Store' = Store]_vars

\* C7: after a successful cut of frames F from a slot into a destination
\* flagged empty, the source holds no detection at the frames of F, the
\* destination holds there the triples the source held, and the source is
\* unchanged outside F.
C7_CutRelocates ==
    [][(lastOp'.op = "cut_tracklet" /\ lastOp'.ok /\ empty_tracklets[lastOp'.b]) =>
          LET src == lastOp'.a
              dst == lastOp'.b
              F == lastOp'.F
          IN /\ \A f \in F :
                  /\ triple(Store', src, f) = NoDetection
                  /\ triple(Store', dst, f) = triple(Store, src, f)
             /\ \A f \in Frames \ F :
                  triple(Store', src, f) = triple(Store, src, f)]_vars

\* C8: a command that fails leaves the array, both identity maps and both
\* masks as they were before it.
C8_FailedCommandChangesNothing ==
    [][~lastOp'.ok => Store' = Store]_vars

\* C9: a swap or a cut whose slot argument is flagged empty or is no slot
\* of the array is rejected and changes nothing in the store.
C9_EmptySlotRejected ==
    [][(/\ lastOp'.op \in {"swap_tracklets", "cut_tracklet"}
        /\ \/ lastOp'.a \notin Slots
           \/ empty_tracklets[lastOp'.a]
           \/ /\ lastOp'.op = "swap_tracklets"
              /\ (lastOp'.b \notin Slots \/ empty_tracklets[lastOp'.b]))
         => (~lastOp'.ok /\ Store' = Store)]_vars

\* C10: a reassignment keeps the multiset of detections of the whole array:
\* every triple other than the missing one occurs as often after it as
\* before.
C10_ReassignKeepsDetections ==
    [][(lastOp'.op = "legend" /\ lastOp'.ok /\ picked # <<>>) =>
          \A s \in Slots, f \in Frames :
              /\ triple(Store, s, f) # NoDetection =>
                    triple_count(Store', triple(Store, s, f))
                        = triple_count(Store, triple(Store, s, f))
              /\ triple(Store', s, f) # NoDetection =>
                    triple_count(Store', triple(Store', s, f))
                        = triple_count(Store, triple(Store', s, f))]_vars

\* the non-NaN cells of the whole array: x, y and confidence of every slot and
\* frame
nonnan_count(st) ==
    Cardinality({c \in Slots \X Frames \X {1, 2, 3} :
                    ~IsNaN(triple(st, c[1], c[2])[c[3]])})

\* C11: in a run that cuts frames F out of a slot, picks the slot the cut has
\* filled and reassigns it to an individual, the original one included, no
\* step changes the number of non-NaN cells of the whole array: after the
\* reassignment the number is what it was before the cut.
C11_CutReassignKeepsCount ==
    [][nonnan_count(Store') = nonnan_count(Store)]_vars

\* the cut slot has been reassigned over the frames it held, and the array is
\* again the loaded one: the detections are back in the slot they were cut
\* from and the slot the cut had filled is empty again
C11_Witness ==
    /\ lastOp.op = "legend"
    /\ lastOp.ok
    /\ lastOp.F # {}
    /\ Len(picked) = 1
    /\ picked[1] >= NIndividuals * NBodyparts
    /\ xy = loaded_xy(picked[1], "empty")
    /\ prob = loaded_prob(picked[1], "empty")
    /\ \E s \in Slots : ~IsNaN(prob[s][0]) /\ s # picked[1]
                          /\ tracklet2id[s] = lastOp.a
                          /\ tracklet2bp[s] = tracklet2bp[picked[1]]

\* C12: in every state the session's swap, invert, cut and reassign commands
\* reach from a loaded table, x, y and the confidence of every slot at every
\* frame are all NaN or all present.
C12_TriplesWellFormed ==
    \A s \in Slots, f \in Frames :
        \/ triple(Store, s, f) = NoDetection
        \/ /\ ~IsNaN(xy[s][f][1])
           /\ ~IsNaN(xy[s][f][2])
           /\ ~IsNaN(prob[s][f])

\* a reassignment has exchanged, at a frame of its mask, a detection with a
\* missing one: a slot holds there a detection loaded into another slot and
\* a picked slot holds none
C12_Witness ==
    /\ lastOp.op = "legend"
    /\ lastOp.ok
    /\ \E f \in lastOp.F :
          /\ \E s \in Slots : prob[s][f] \notin {NaN, 1 + s * NFrames + f}
          /\ \E k \in DOMAIN picked : triple(Store, picked[k], f) = NoDetection

\* the difference of coordinate c of slots a and b at frame f goes from
\* positive at frame t to non-positive at frame t + 1, both being defined
flips_down(arr, a, b, t, c) ==
    /\ \A f \in {t, t + 1}, s \in {a, b} : ~IsNaN(arr[s][f][c])
    /\ arr[a][t][c] - arr[b][t][c] > 0
    /\ arr[a][t + 1][c] - arr[b][t + 1][c] <= 0

\* ... from non-positive at frame t to positive at frame t + 1
flips_up(arr, a, b, t, c) ==
    /\ \A f \in {t, t + 1}, s \in {a, b} : ~IsNaN(arr[s][f][c])
    /\ arr[a][t][c] - arr[b][t][c] <= 0
    /\ arr[a][t + 1][c] - arr[b][t + 1][c] > 0

\* the step is a call of find_swapping_bodypart_pairs that computes the table
table_computed == lastOp'.op = "find" /\ (swapping_pairs = <<>> \/ lastOp'.a = 1)

\* the slot at row or column i of the crossing matrix just computed
slot_at(i) == nonempty_of(Store)[i + 1]

\* C13 as stated: the detector marks a crossing between two frames for a
\* pair of slots of different individuals exactly when the x difference and
\* the y difference both flip sign in the same direction; x going positive to
\* non-positive while y goes non-positive to positive is not marked.
C13_SameDirectionOnly ==
    [][table_computed =>
          \A i \in DOMAIN tracklet_swaps', j \in DOMAIN tracklet_swaps',
             t \in 0 .. (NFrames - 2) :
              tracklet2id[slot_at(i)] # tracklet2id[slot_at(j)] =>
                 (t \in tracklet_swaps'[i][j] <=>
                     \/ \A c \in {1, 2} : flips_down(xy, slot_at(i), slot_at(j), t, c)
                     \/ \A c \in {1, 2} : flips_up(xy, slot_at(i), slot_at(j), t, c))]_vars

\* C13 amended: the detector marks a crossing between two frames for a slot
\* pair exactly when the x difference and the y difference both flip sign,
\* each in either direction.
C13_EitherDirection ==
    [][table_computed =>
          \A i \in DOMAIN tracklet_swaps', j \in DOMAIN tracklet_swaps',
             t \in 0 .. (NFrames - 2) :
              t \in tracklet_swaps'[i][j] <=>
                  \A c \in {1, 2} :
                      \/ flips_down(xy, slot_at(i), slot_at(j), t, c)
                      \/ flips_up(xy, slot_at(i), slot_at(j), t, c)]_vars

\* the table in force was computed from the present array and marks a step
\* at which x goes positive to non-positive and y non-positive to positive
C13_Witness ==
    /\ lastOp.op = "find"
    /\ tracklet_swaps = tracklet_swaps_of(Store)
    /\ \E i \in DOMAIN tracklet_swaps, j \in DOMAIN tracklet_swaps,
          t \in 0 .. (NFrames - 2) :
          /\ t \in tracklet_swaps[i][j]
          /\ tracklet2id[slot_at(i)] # tracklet2id[slot_at(j)]
          /\ flips_down(xy, slot_at(i), slot_at(j), t, 1)
          /\ flips_up(xy, slot_at(i), slot_at(j), t, 2)

\* the unordered pairs of a pair list
PairSet(pairs) == {{pairs[m][1], pairs[m][2]} : m \in DOMAIN pairs}

\* the crossings the detector counts for two slots: those of the difference
\* higher slot minus lower slot, the entry below the matrix's diagonal
crossings_of(arr, a, b) ==
    LET hi == IF a > b THEN a ELSE b
        lo == IF a > b THEN b ELSE a
    IN Cardinality({t \in 0 .. (NFrames - 2) :
          \A c \in {1, 2} : flips_down(arr, hi, lo, t, c) \/ flips_up(arr, hi, lo, t, c)})

moves_linearly(arr, s) ==
    /\ \A f \in Frames, c \in {1, 2} : ~IsNaN(arr[s][f][c])
    /\ \A f \in 1 .. (NFrames - 2), c \in {1, 2} :
          arr[s][f + 1][c] - arr[s][f][c] = arr[s][f][c] - arr[s][f - 1][c]
    /\ \E c \in {1, 2} : arr[s][1][c] # arr[s][0][c]

\* slots a and b meet at frame t0 and have changed sides, in x and in y,
\* from the frame before to the frame after
cross_at(arr, a, b, t0) ==
    \A c \in {1, 2} :
        /\ arr[a][t0][c] = arr[b][t0][c]
        /\ (arr[a][t0 - 1][c] - arr[b][t0 - 1][c])
              * (arr[a][t0 + 1][c] - arr[b][t0 + 1][c]) < 0

\* slot a stays on one side of slot b, in x and in y, at every frame
never_cross(arr, a, b) ==
    \A c \in {1, 2} :
        \/ \A f \in Frames : arr[a][f][c] - arr[b][f][c] > 0
        \/ \A f \in Frames : arr[a][f][c] - arr[b][f][c] < 0

\* C15: for two slots of different individuals that move linearly and cross
\* in x and y at a frame t0
\* the detector finds exactly one crossing, within one frame of t0, and for
\* two that never cross it finds none.
C15_OneCrossingDetected ==
    [][table_computed =>
          \A i \in DOMAIN tracklet_swaps', j \in DOMAIN tracklet_swaps' :
              LET a == slot_at(i)
                  b == slot_at(j)
              IN (/\ tracklet2id[a] # tracklet2id[b]
                  /\ moves_linearly(xy, a)
                  /\ moves_linearly(xy, b)) =>
                    /\ \A t0 \in 1 .. (NFrames - 2) :
                          cross_at(xy, a, b, t0) =>
                              /\ Cardinality(tracklet_swaps'[i][j]) = 1
                              /\ tracklet_swaps'[i][j] \subseteq {t0 - 1, t0}
                    /\ never_cross(xy, a, b) =>
                          tracklet_swaps'[i][j] = {}]_vars

\* C16: once the table has been computed, a call of
\* find_swapping_bodypart_pairs without force_find leaves the pairs and the
\* crossing matrix as they are, also when the table holds no pair and after
\* the array has been changed.
C16_TableKeptWithoutForce ==
    [][(lastOp'.op = "find" /\ lastOp'.a = 0 /\ tracklet_swaps # <<>>) =>
          UNCHANGED tableVars]_vars

\* the frames that bound the segments of the selected pair: the first frame,
\* the last frame and the pair's swap events as get_swap_indices returns them
boundaries_of(swaps, pair) ==
    {0, NFrames - 1} \cup SeqRange(get_swap_indices(swaps, pair[1], pair[2]))

\* C17: with a pair selected and the slider at any frame i, swap() exchanges
\* the pair over a non-empty run of consecutive frames that contains i, from
\* the nearest boundary at or below i to the nearest boundary above i (the
\* last frame when i is the last frame).
C17_SwapRangeAroundFrame ==
    [][(/\ lastOp'.op = "swap"
        /\ picked_pair # <<>>
        /\ ~get_swap_indices_raises(tracklet_swaps, picked_pair[1], picked_pair[2])) =>
          LET B == boundaries_of(tracklet_swaps, picked_pair)
              i == slider_val
              lo == CHOOSE b \in B : b <= i /\ \A c \in B : c <= i => c <= b
              hi == IF \E b \in B : b > i
                    THEN Min({b \in B : b > i}) ELSE NFrames - 1
          IN /\ lastOp'.ok
             /\ lastOp'.F # {}
             /\ i \in lastOp'.F
             /\ lastOp'.F = lo .. hi
             /\ Store' = swap_tracklets(Store, picked_pair[1], picked_pair[2],
                                        lastOp'.F)]_vars

\* C18: invert() changes only the (x, y, confidence) of the two selected
\* slots at the current frame: every other cell of the array and the
\* bodypart mapping of both slots are after the call what they were before.
C18_InvertOneFrameOnly ==
    [][(lastOp'.op = "invert" /\ lastOp'.ok) =>
          /\ \A s \in Slots, f \in Frames :
                (f # slider_val \/ s \notin {lastOp'.a, lastOp'.b}) =>
                    triple(Store', s, f) = triple(Store, s, f)
          /\ tracklet2bp'[lastOp'.a] = tracklet2bp[lastOp'.a]
          /\ tracklet2bp'[lastOp'.b] = tracklet2bp[lastOp'.b]]_vars

\* C19: the second x key-press cuts the inclusive range between the lower
\* and the higher of the two marked frames, in whichever order they were
\* marked, and leaves no mark pending, with or without a picked slot; at
\* most one mark is ever pending after a key-press.
C19_SecondMarkCuts ==
    [][(lastOp'.op = "x" /\ Len(cuts) = 1) =>
          LET lo == IF cuts[1] < slider_val THEN cuts[1] ELSE slider_val
              hi == IF cuts[1] < slider_val THEN slider_val ELSE cuts[1]
          IN /\ lastOp'.F = lo .. hi
             /\ cuts' = <<>>
             /\ picked # <<>> =>
                   Store' = cut_tracklet(Store, picked[1], lo .. hi)]_vars

\* C20: a pair is selected only while exactly one slot is picked, that slot
\* belongs to the pair and the pair is an entry of the table; a pick of a
\* slot without a pair, and every lasso selection, leaves no pair selected.
C20_PairFollowsPick ==
    [][/\ picked_pair' # <<>> =>
             /\ Len(picked') = 1
             /\ picked'[1] \in {picked_pair'[1], picked_pair'[2]}
             /\ picked_pair' \in SeqRange(swapping_pairs')
       /\ lastOp'.op = "on_select" => picked_pair' = <<>>
       /\ (/\ lastOp'.op = "on_pick"
           /\ \A m \in DOMAIN swapping_pairs :
                 \A k \in DOMAIN picked' :
                    picked'[k] \notin {swapping_pairs[m][1], swapping_pairs[m][2]})
             => picked_pair' = <<>>]_vars

\* C24: every completed session swap() leaves no pair selected, and swap()
\* issued when no pair is selected changes neither the store nor the session
\* state.
C24_SwapClearsPair ==
    [][lastOp'.op = "swap" =>
          /\ (picked_pair # <<>> /\ lastOp'.ok) => picked_pair' = <<>>
          /\ picked_pair = <<>> =>
                (Store' = Store /\ UNCHANGED <<tableVars, sessionVars>>)]_vars

\* the frames at which slots a and b cross: x and y differences both flip
crossing_frames(arr, a, b) ==
    {t \in 0 .. (NFrames - 2) :
        \A c \in {1, 2} : flips_down(arr, a, b, t, c) \/ flips_up(arr, a, b, t, c)}

\* C27: once the table has been computed, get_swap_indices(a, b) returns for
\* every pair (a, b) of the table exactly the crossing frames of slots a and
\* b, also when a slot below a or b is flagged empty and has no row in the
\* crossing matrix.
C27_SwapIndicesOfPair ==
    [][table_computed =>
          \A m \in DOMAIN swapping_pairs' :
              LET a == swapping_pairs'[m][1]
                  b == swapping_pairs'[m][2]
              IN /\ ~get_swap_indices_raises(tracklet_swaps', a, b)
                 /\ get_swap_indices(tracklet_swaps', a, b)
                       = SortedSeq(crossing_frames(xy, a, b))]_vars

\* C21: under any sequence of move_forward, move_backward,
\* move_to_next_unidentified and playback steps at any forward or rewind
\* speed, the displayed frame index stays within 0 .. nframes - 1.
C21_FrameIndexInRange == slider_val \in Frames

\* C26: the playback step's read of the displayed frame index and its write
\* of the next index are never interleaved with an operator write to that
\* index: no operator command changes the index while the player's thread
\* is between its read (line 38) and its write (line 47).
C26_NoWriteInsidePlayerStep ==
    [][(nops' # nops /\ slider_val' # slider_val) =>
          pc \notin {"speed", "set"}]_vars

\* C30: after terminate() the run loop of the player eventually exits, also
\* when the player is paused at that moment and no resume follows.
C30_TerminateExitsLoop == (~running) ~> (pc = "done")

\* C25: the slot cut by the second x key-press is the slot that was selected
\* when the first x key-press recorded the cut start, even if the operator
\* changes the selection between the two key-presses.
C25_CutSlotOfFirstMark ==
    [][(/\ lastOp'.op = "x"
        /\ lastOp'.ok
        /\ Len(cuts) = 1
        /\ mark_picked # <<>>) => lastOp'.a = mark_picked[1]]_vars

\* the entry of temp of the tracklet the step has placed
placed == tracklets[lastOp'.a + 1]

\* C22 as stated: the loader places the raw tracklets in ascending order of
\* completeness: no tracklet is placed before one of strictly lower
\* completeness.
C22_AscendingCompleteness ==
    [][lastOp'.op = "place" =>
          \A k \in DOMAIN tracklets_sorted' :
              tracklets_sorted'[k].completeness >= placed.completeness]_vars

\* C22 amended: the loader places the raw tracklets in descending order of
\* completeness: no tracklet is placed before one of strictly higher
\* completeness, so the most complete tracklet is placed first.
C22_DescendingCompleteness ==
    [][lastOp'.op = "place" =>
          \A k \in DOMAIN tracklets_sorted' :
              tracklets_sorted'[k].completeness <= placed.completeness]_vars

\* a tracklet has been placed while one of strictly lower completeness and a
\* lower number, and one of the same completeness, are still to place
C22_Witness ==
    /\ lastOp.op = "place"
    /\ \E k \in DOMAIN tracklets_sorted :
          /\ tracklets_sorted[k].completeness < tracklets[lastOp.a + 1].completeness
          /\ tracklets_sorted[k].num < lastOp.a
    /\ \E k \in DOMAIN tracklets_sorted :
          tracklets_sorted[k].completeness = tracklets[lastOp.a + 1].completeness

\* the (x, y, confidence) triple of bodypart b at frame f of a container or of
\* a raw tracklet's data
triple_of(arr, f, b) == <<arr[f][3 * b], arr[f][3 * b + 1], arr[f][3 * b + 2]>>

\* the single-identity raw tracklets with a detection of unique bodypart b at
\* frame f
covering(f, b) ==
    {k \in DOMAIN tracklets :
        tracklets[k].is_single /\ ~IsNaN(tracklets[k].data[f][3 * b + 2])}

\* C23: after loading, for every frame and unique bodypart covered by a
\* single-identity raw tracklet, the single-identity target holds the
\* complete triple of a covering tracklet whose confidence is the maximum
\* over the covering tracklets; and a placement never replaces a stored
\* triple by a candidate of equal confidence.
C23_SingleKeepsMostConfident ==
    [][/\ tracklets_sorted' = <<>> =>
             \A f \in Frames, b \in 0 .. (NSingle - 1) :
                 covering(f, b) # {} =>
                    \E k \in covering(f, b) :
                       /\ triple_of(tracklets_single', f, b)
                             = triple_of(tracklets[k].data, f, b)
                       /\ \A k2 \in covering(f, b) :
                             tracklets[k2].data[f][3 * b + 2]
                                <= tracklets[k].data[f][3 * b + 2]
       /\ (lastOp'.op = "place" /\ placed.is_single) =>
             \A f \in Frames, b \in 0 .. (NSingle - 1) :
                 (/\ ~IsNaN(tracklets_single[f][3 * b + 2])
                  /\ placed.data[f][3 * b + 2] = tracklets_single[f][3 * b + 2]) =>
                    triple_of(tracklets_single', f, b)
                       = triple_of(tracklets_single, f, b)]_vars

\* the loading has ended and a cell of the single-identity target holds the
\* triple of a tracklet that replaced a less confident one placed before it,
\* while another covering tracklet, placed later, has the same confidence
C23_Witness ==
    /\ tracklets_sorted = <<>>
    /\ lastOp.op = "place"
    /\ \E f \in Frames, b \in 0 .. (NSingle - 1) :
          \E k1 \in covering(f, b), k2 \in covering(f, b), k3 \in covering(f, b) :
              /\ triple_of(tracklets_single, f, b) = triple_of(tracklets[k1].data, f, b)
              /\ k2 # k1
              /\ tracklets[k2].data[f][3 * b + 2] = tracklets[k1].data[f][3 * b + 2]
              /\ tracklets[k2].completeness < tracklets[k1].completeness
              /\ tracklets[k3].data[f][3 * b + 2] < tracklets[k1].data[f][3 * b + 2]
              /\ tracklets[k3].completeness > tracklets[k1].completeness

\* C29: while a multi-identity raw tracklet is placed, each of its
\* detections (frame, bodypart triple) is written into the slots of at most
\* one individual, also when every individual has an overwrite conflict and
\* the detection's cell is free in two individuals.
C29_OneIndividualPerDetection ==
    [][(lastOp'.op = "place" /\ ~placed.is_single) =>
          \A f \in Frames, b \in 0 .. (NBodyparts - 1) :
              ~IsNaN(placed.data[f][3 * b]) =>
                 Cardinality({i \in 0 .. (NIndividuals - 1) :
                    /\ triple_of(tracklets_multi'[i], f, b) = triple_of(placed.data, f, b)
                    /\ triple_of(tracklets_multi[i], f, b) # triple_of(placed.data, f, b)})
                       <= 1]_vars

\* C28: a reassignment writes only into slots of the target individual: for
\* every picked slot the target index, the individual's first slot plus the
\* bodypart index of the picked slot, is one of that individual's slots,
\* also for a picked slot of a unique bodypart; no slot of another
\* individual that was not picked is changed.
C28_ReassignInsideIndividual ==
    [][(lastOp'.op = "legend" /\ picked # <<>>) =>
          /\ \A k \in DOMAIN picked :
                LET target == reassign_inds(Store, picked, lastOp'.a)[k]
                IN target \in Slots /\ tracklet2id[target] = lastOp'.a
          /\ \A s \in Slots :
                (s \notin SeqRange(picked) /\ tracklet2id[s] # lastOp'.a) =>
                    (xy'[s] = xy[s] /\ prob'[s] = prob[s])]_vars

====
